---- MODULE Spec2Model ----
(***************************************************************************)
(* A model of walrus' function and value types (src/src/ty.rs): the        *)
(* structural equality, ordering and tombstoning of Type, the conversions  *)
(* of ValType / RefType / HeapType to and from the binary schema, their    *)
(* text rendering, the type interner built over the tombstone arena, and   *)
(* the function builder with the emit / parse round trip of a module, as   *)
(* the builder tests (src/crates/tests/tests/gc-builder.rs) drive them.    *)
(***************************************************************************)
EXTENDS Integers, Sequences, FiniteSets, TLC

VARIABLES
    arena,      \* interner: the arena's slots, slot i+1 holds the Type of id i
    dead,       \* interner: the ids the arena has tombstoned
    issued,     \* history: the ids the arena's alloc returned, in order
    deleted,    \* history: the ids delete was called on
    interned,   \* history: signature -> id the interner last answered for it
    last,       \* the last intern call: its arguments and what it returned
    tyA, tyB,   \* comparison: the two Types compared
    tyRes,      \* comparison: the result of the last eq / cmp
    wpIn,       \* conversion: a value type of the external (binary) schema
    vtIn,       \* conversion: an internal ValType
    convOut,    \* conversion: the result of the last conversion step
    plan,       \* builder: the function body the client is writing
    bld,        \* builder: the open FunctionBuilder, or NoBuilder
    funcs,      \* builder: the module's function arena, slot i+1 holds id i
    exports,    \* builder: the module's export table
    tables,     \* builder: the module's table arena
    globals,    \* builder: the module's global arena
    fin,        \* builder: the last builder call and what it returned
    wire        \* builder: the round trip of the module as it is, if one was made

vars == <<arena, dead, issued, deleted, interned, last,
          tyA, tyB, tyRes, wpIn, vtIn, convOut,
          plan, bld, funcs, exports, tables, globals, fin, wire>>

internerVars == <<arena, dead, issued, deleted, interned, last>>
cmpVars == <<tyA, tyB, tyRes>>
convVars == <<wpIn, vtIn, convOut>>
buildVars == <<plan, bld, funcs, exports, tables, globals, fin, wire>>

(***************************************************************************)
(* Bounds of the model.                                                    *)
(***************************************************************************)
\* how many slots the type arena may grow to
MaxTypes == 3
\* the longest params / results list of a compared Type
MaxLen == 1
\* the largest index of a concrete (indexed) heap type
MaxIdx == 1

(***************************************************************************)
(* The value / reference / heap type model.                                *)
(***************************************************************************)
\* enum AbstractHeapType, in declaration order (the derived Ord's order)
AbstractHeapTypes ==
    <<"Func", "Extern", "Any", "None", "NoExtern", "NoFunc",
      "Eq", "Struct", "Array", "I31", "Exn", "NoExn">>

AbstractHeapTypeSet == {AbstractHeapTypes[i] : i \in DOMAIN AbstractHeapTypes}

\* enum HeapType
Abstract(ty) == [tag |-> "Abstract", ty |-> ty]
Concrete(idx) == [tag |-> "Concrete", idx |-> idx]

\* the indices of the concrete heap types considered (u32), one of them with
\* more than one decimal digit
ConcreteIdxs == 0..MaxIdx \cup {27}

HeapTypeSet ==
    {Abstract(t) : t \in AbstractHeapTypeSet} \cup {Concrete(i) : i \in ConcreteIdxs}

\* a plausible bug: the nullable flag is taken over inverted
RefTypeFlipsNullable(nullable, heap_type) == [nullable |-> ~nullable, heap_type |-> heap_type]

\* a plausible bug: the nullable flag is not taken over
RefTypeAlwaysNullable(nullable, heap_type) == [nullable |-> TRUE, heap_type |-> heap_type]

\* struct RefType
RefType(nullable, heap_type) == [nullable |-> nullable, heap_type |-> heap_type]

RefTypeSet == {RefType(n, h) : n \in BOOLEAN, h \in HeapTypeSet}

\* enum ValType, in declaration order
ValTypeTags == <<"I32", "I64", "F32", "F64", "V128", "Ref">>

Num(tag) == [tag |-> tag]
Ref(r) == [tag |-> "Ref", ref |-> r]

I32 == Num("I32")
I64 == Num("I64")

ValTypeSet ==
    {Num(t) : t \in {"I32", "I64", "F32", "F64", "V128"}} \cup {Ref(r) : r \in RefTypeSet}

\* a plausible bug: the alias is declared non-nullable
I31REF_NonNullable == RefType(FALSE, Abstract("I31"))

\* the associated constants of RefType
I31REF == RefType(TRUE, Abstract("I31"))
ANYREF == RefType(TRUE, Abstract("Any"))
EQREF == RefType(TRUE, Abstract("Eq"))
FUNCREF == RefType(TRUE, Abstract("Func"))
EXTERNREF == RefType(TRUE, Abstract("Extern"))
ARRAYREF == RefType(TRUE, Abstract("Array"))
STRUCTREF == RefType(TRUE, Abstract("Struct"))
EXNREF == RefType(TRUE, Abstract("Exn"))
NULLREF == RefType(TRUE, Abstract("None"))
NULLEXTERNREF == RefType(TRUE, Abstract("NoExtern"))
NULLFUNCREF == RefType(TRUE, Abstract("NoFunc"))

RefTypeConstants ==
    {ANYREF, EQREF, FUNCREF, EXTERNREF, I31REF, ARRAYREF, STRUCTREF, EXNREF,
     NULLREF, NULLEXTERNREF, NULLFUNCREF}

(***************************************************************************)
(* Orderings: std::cmp::Ordering and the derived Ord of the type model.    *)
(***************************************************************************)
Less == "Less"
Equal == "Equal"
Greater == "Greater"

IntCmp(x, y) == IF x < y THEN Less ELSE IF x > y THEN Greater ELSE Equal

\* Ordering::then_with
ThenWith(o, next) == IF o = Equal THEN next ELSE o

IndexOf(seq, x) == CHOOSE i \in DOMAIN seq : seq[i] = x

BoolCmp(x, y) == IntCmp(IF x THEN 1 ELSE 0, IF y THEN 1 ELSE 0)

AbstractHeapTypeCmp(x, y) ==
    IntCmp(IndexOf(AbstractHeapTypes, x), IndexOf(AbstractHeapTypes, y))

HeapTypeCmp(x, y) ==
    IF x.tag = "Abstract" /\ y.tag = "Abstract" THEN AbstractHeapTypeCmp(x.ty, y.ty)
    ELSE IF x.tag = "Concrete" /\ y.tag = "Concrete" THEN IntCmp(x.idx, y.idx)
    ELSE IF x.tag = "Abstract" THEN Less
    ELSE Greater

RefTypeCmp(x, y) ==
    ThenWith(BoolCmp(x.nullable, y.nullable), HeapTypeCmp(x.heap_type, y.heap_type))

ValTypeCmp(x, y) ==
    IF x.tag = "Ref" /\ y.tag = "Ref" THEN RefTypeCmp(x.ref, y.ref)
    ELSE IntCmp(IndexOf(ValTypeTags, x.tag), IndexOf(ValTypeTags, y.tag))

\* <[ValType] as Ord>::cmp: lexicographic, a proper prefix is Less
RECURSIVE SliceCmp(_, _)
SliceCmp(s, t) ==
    IF s = <<>> /\ t = <<>> THEN Equal
    ELSE IF s = <<>> THEN Less
    ELSE IF t = <<>> THEN Greater
    ELSE ThenWith(ValTypeCmp(Head(s), Head(t)), SliceCmp(Tail(s), Tail(t)))

\* a plausible bug: only the lengths are compared
SliceEqLenOnly(s, t) == Len(s) = Len(t)

\* <[ValType] as PartialEq>::eq: same length and equal element by element
SliceEq(s, t) ==
    /\ Len(s) = Len(t)
    /\ \A i \in 1..Len(s) : s[i] = t[i]

(***************************************************************************)
(* struct Type.  name is an Option<String>: <<>> is None, <<s>> is Some(s). *)
(***************************************************************************)
NoName == <<>>

MkType(id, params, results, flag, name) ==
    [id |-> id, params |-> params, results |-> results,
     is_for_function_entry |-> flag, name |-> name]

\* Type::new
TypeNew(id, params, results) == MkType(id, params, results, FALSE, NoName)

\* Type::for_function_entry
TypeForFunctionEntry(id, results) == MkType(id, <<>>, results, TRUE, NoName)

\* a plausible bug: the comparison also looks at the id
TypeEqWithId(a, b) ==
    /\ a.id = b.id
    /\ SliceEq(a.params, b.params)
    /\ SliceEq(a.results, b.results)
    /\ a.is_for_function_entry = b.is_for_function_entry

\* a plausible bug: the comparison also looks at the debug name
TypeEqWithName(a, b) ==
    /\ a.name = b.name
    /\ SliceEq(a.params, b.params)
    /\ SliceEq(a.results, b.results)
    /\ a.is_for_function_entry = b.is_for_function_entry

\* a plausible bug: the comparison forgets the function-entry flag
TypeEqNoFlag(a, b) ==
    /\ SliceEq(a.params, b.params)
    /\ SliceEq(a.results, b.results)

\* <Type as PartialEq>::eq
TypeEq(a, b) ==
    /\ SliceEq(a.params, b.params)
    /\ SliceEq(a.results, b.results)
    /\ a.is_for_function_entry = b.is_for_function_entry

\* a plausible bug: the id is hashed too
TypeHashWithId(t) == <<t.id, t.params, t.results, t.is_for_function_entry>>

\* <Type as hash::Hash>::hash: what is fed to the hasher, in order
TypeHash(t) == <<t.params, t.results, t.is_for_function_entry>>

\* <Type as Ord>::cmp
TypeCmp(a, b) ==
    ThenWith(SliceCmp(a.params, b.params), SliceCmp(a.results, b.results))

\* a plausible bug: the hook resets the whole signature, the flag included
TypeOnDeleteResetsFlag(t) ==
    [t EXCEPT !.params = <<>>, !.results = <<>>, !.is_for_function_entry = FALSE]

\* a plausible bug: the hook clears the params and keeps the results
TypeOnDeleteKeepsResults(t) == [t EXCEPT !.params = <<>>]

\* <Type as Tombstone>::on_delete
TypeOnDelete(t) == [t EXCEPT !.params = <<>>, !.results = <<>>]

(***************************************************************************)
(* The tombstone arena: id-keyed slots that are never removed.  A deleted  *)
(* slot stays in place, cleared by the entity's on_delete hook.            *)
(***************************************************************************)
NoId == -1
NoData == [tag |-> "NoData"]

\* the id the next alloc will return: ids are dense, in allocation order
ArenaNextId(slots) == Len(slots)

\* alloc: a new slot at the end; no slot is ever reused
ArenaAlloc(slots, t) == Append(slots, t)

\* delete: the slot is kept and its content replaced by the cleared marker
ArenaDelete(slots, id) == [slots EXCEPT ![id + 1] = TypeOnDelete(@)]

\* iteration: the ids of the slots that are not tombstoned
ArenaIter(slots, tomb) == {id \in 0..(Len(slots) - 1) : id \notin tomb}

\* lookup: a tombstoned id answers with the no-data outcome
ArenaGet(slots, tomb, id) == IF id \in tomb THEN NoData ELSE slots[id + 1]

\* the slot's raw content, tombstoned or not
ArenaSlot(slots, id) == slots[id + 1]

(***************************************************************************)
(* The type interner over the arena.                                       *)
(***************************************************************************)
Min(S) == CHOOSE x \in S : \A y \in S : x <= y

\* a keyed lookup hits an entry when the hashes agree and the keys are equal
KeyMatches(t, probe) == TypeHash(t) = TypeHash(probe) /\ TypeEq(t, probe)

\* the first live entry structurally equal to the probe, or NoId
Find(slots, tomb, probe) ==
    LET hits == {id \in ArenaIter(slots, tomb) : KeyMatches(ArenaSlot(slots, id), probe)}
    IN  IF hits = {} THEN NoId ELSE Min(hits)

\* the structural key of a Type
SigOf(t) == <<t.params, t.results, t.is_for_function_entry>>

\* the params / results the interner is called with
InternInputs ==
    {<<<<>>, <<>>>>, <<<<>>, <<I32>>>>, <<<<I32>>, <<Ref(I31REF)>>>>}

\* the results the function-entry constructor is called with
EntryInputs == {<<>>, <<I32>>}

\* the debug names a client sets
NameInputs == {<<"t">>}

SigSet ==
    {<<s[1], s[2], FALSE>> : s \in InternInputs} \cup {<<<<>>, r, TRUE>> : r \in EntryInputs}

NoCall ==
    [op |-> "none", sig |-> <<>>, ret |-> NoId, prev |-> NoId,
     lenBefore |-> 0, lenAfter |-> 0]

\* the shared tail of intern and the function-entry constructor: answer the
\* live structurally equal entry if there is one, else allocate the probe
InternProbe(op, probe) ==
    LET found == Find(arena, dead, probe)
        sig == SigOf(probe)
        ret == IF found # NoId THEN found ELSE probe.id
    IN  /\ found = NoId => Len(arena) < MaxTypes
        /\ arena' = IF found # NoId THEN arena ELSE ArenaAlloc(arena, probe)
        /\ issued' = IF found # NoId THEN issued ELSE Append(issued, probe.id)
        /\ interned' = [interned EXCEPT ![sig] = ret]
        /\ last' = [op |-> op, sig |-> sig, ret |-> ret, prev |-> interned[sig],
                     lenBefore |-> Len(arena), lenAfter |-> Len(arena')]
        /\ UNCHANGED <<dead, deleted>>

\* intern(params, results) -> TypeId
Intern(params, results) ==
    /\ InternProbe("intern", TypeNew(ArenaNextId(arena), params, results))
    /\ UNCHANGED <<cmpVars, convVars, buildVars>>

\* the constructor of function-entry types
InternForFunctionEntry(results) ==
    /\ InternProbe("entry", TypeForFunctionEntry(ArenaNextId(arena), results))
    /\ UNCHANGED <<cmpVars, convVars, buildVars>>

\* delete(id): tombstone the slot and run the Type's clear hook
Delete(id) ==
    /\ id \in 0..(Len(arena) - 1)
    /\ arena' = ArenaDelete(arena, id)
    /\ dead' = dead \cup {id}
    /\ deleted' = deleted \cup {id}
    /\ interned' = [s \in SigSet |-> IF interned[s] = id THEN NoId ELSE interned[s]]
    /\ last' = NoCall
    /\ UNCHANGED <<issued, cmpVars, convVars, buildVars>>

\* a client writes the public debug name of a live Type
SetName(id, name) ==
    /\ id \in ArenaIter(arena, dead)
    /\ arena' = [arena EXCEPT ![id + 1].name = name]
    /\ last' = NoCall
    /\ UNCHANGED <<dead, issued, deleted, interned, cmpVars, convVars, buildVars>>

Idle == "idle"

Init ==
    /\ arena = <<>>
    /\ dead = {}
    /\ issued = <<>>
    /\ deleted = {}
    /\ interned = [s \in SigSet |-> NoId]
    /\ last = NoCall
    /\ tyA = Idle /\ tyB = Idle /\ tyRes = Idle
    /\ wpIn = Idle /\ vtIn = Idle /\ convOut = Idle
    /\ plan = Idle /\ bld = Idle /\ funcs = Idle /\ exports = Idle
    /\ tables = Idle /\ globals = Idle /\ fin = Idle /\ wire = Idle

Next ==
    \/ \E s \in InternInputs : Intern(s[1], s[2])
    \/ \E r \in EntryInputs : InternForFunctionEntry(r)
    \/ \E id \in 0..(MaxTypes - 1) : Delete(id)
    \/ \E id \in 0..(MaxTypes - 1), n \in NameInputs : SetName(id, n)

Spec == Init /\ [][Next]_vars

(***************************************************************************)
(* Properties of the interner and the arena, checked under Spec.           *)
(***************************************************************************)
LiveIds == ArenaIter(arena, dead)

IssuedIds == {issued[i] : i \in DOMAIN issued}

\* C1: after any sequence of intern, function-entry creation and delete, no
\* two live entries of the interner have the same (params, results,
\* is_for_function_entry) while carrying different ids.
C1_NoDuplicateLiveTypes ==
    \A i, j \in LiveIds :
        SigOf(ArenaSlot(arena, i)) = SigOf(ArenaSlot(arena, j))
            => /\ i = j
               /\ ArenaSlot(arena, i).id = ArenaSlot(arena, j).id

\* C1's case: a normal and a function-entry type are live, one entry was
\* deleted, and a live entry has the very signature the tombstone was cleared to.
C1_Witness ==
    /\ \E i, j \in LiveIds :
          /\ ~ArenaSlot(arena, i).is_for_function_entry
          /\ ArenaSlot(arena, j).is_for_function_entry
    /\ \E d \in dead, i \in LiveIds : SigOf(ArenaSlot(arena, d)) = SigOf(ArenaSlot(arena, i))

\* C2: an intern call for a signature the interner already answered (and whose
\* type was not deleted since) returns the same id and adds no arena entry,
\* whatever was interned in between.
C2_InternIdempotent ==
    (last.op = "intern" /\ last.prev # NoId)
        => /\ last.ret = last.prev
           /\ last.lenAfter = last.lenBefore

\* C2's case: a signature is interned again after two other types were
\* created behind it.
C2_Witness ==
    /\ last.op = "intern"
    /\ last.prev # NoId
    /\ last.ret = 0
    /\ Cardinality(LiveIds) = MaxTypes

\* C5: an id the arena returned is never returned again, also after a delete;
\* a deleted id still names its slot, which holds the cleared marker and
\* answers a lookup with the no-data outcome; iteration yields exactly the
\* ids added and not deleted.
C5_TombstoneArena ==
    /\ \A i, j \in DOMAIN issued : i # j => issued[i] # issued[j]
    /\ \A d \in deleted :
          /\ d \in IssuedIds
          /\ d \in 0..(Len(arena) - 1)
          /\ ArenaGet(arena, dead, d) = NoData
          /\ ArenaSlot(arena, d).id = d
          /\ ArenaSlot(arena, d).params = <<>>
          /\ ArenaSlot(arena, d).results = <<>>
    /\ ArenaIter(arena, dead) = IssuedIds \ deleted
    /\ \A id \in LiveIds : ArenaGet(arena, dead, id) = ArenaSlot(arena, id)

\* C5's case: an entry was deleted and a later call allocated a new id.
C5_Witness ==
    /\ deleted # {}
    /\ last.op \in {"intern", "entry"}
    /\ last.lenAfter > last.lenBefore
    /\ last.ret \notin deleted
    /\ \E d \in deleted : d < last.ret

(***************************************************************************)
(* Comparing Types: the Types a module can hold are those Type::new and    *)
(* Type::for_function_entry build, with any id and any debug name.         *)
(***************************************************************************)
SeqsUpTo(S, n) == UNION {[1..k -> S] : k \in 0..n}

\* the value types the compared signatures are built from
CmpValTypes == {I32, Ref(I31REF)}

CmpLists == SeqsUpTo(CmpValTypes, MaxLen)

CmpIds == 0..1

CmpNames == {NoName, <<"t">>}

CmpTypes ==
    {[TypeNew(id, p, r) EXCEPT !.name = n] :
        id \in CmpIds, p \in CmpLists, r \in CmpLists, n \in CmpNames}
    \cup
    {[TypeForFunctionEntry(id, r) EXCEPT !.name = n] :
        id \in CmpIds, r \in CmpLists, n \in CmpNames}

NoResult == [op |-> "none", eq |-> FALSE, ord |-> Equal]

\* a == b
DoEq ==
    /\ tyRes' = [op |-> "eq", eq |-> TypeEq(tyA, tyB), ord |-> Equal]
    /\ UNCHANGED <<tyA, tyB, internerVars, convVars, buildVars>>

\* a.cmp(b)
DoCmp ==
    /\ tyRes' = [op |-> "cmp", eq |-> FALSE, ord |-> TypeCmp(tyA, tyB)]
    /\ UNCHANGED <<tyA, tyB, internerVars, convVars, buildVars>>

\* delete: the clear hook runs on a
DoDelete ==
    /\ tyA' = TypeOnDelete(tyA)
    /\ tyRes' = [op |-> "delete", eq |-> FALSE, ord |-> Equal, before |-> tyA]
    /\ UNCHANGED <<tyB, internerVars, convVars, buildVars>>

InitCmp ==
    /\ tyA \in CmpTypes
    /\ tyB \in CmpTypes
    /\ tyRes = NoResult
    /\ arena = <<>> /\ dead = {} /\ issued = <<>> /\ deleted = {}
    /\ interned = [s \in SigSet |-> NoId]
    /\ last = NoCall
    /\ wpIn = Idle /\ vtIn = Idle /\ convOut = Idle
    /\ plan = Idle /\ bld = Idle /\ funcs = Idle /\ exports = Idle
    /\ tables = Idle /\ globals = Idle /\ fin = Idle /\ wire = Idle

NextCmp == DoEq \/ DoCmp \/ DoDelete

SpecCmp == InitCmp /\ [][NextCmp]_vars

SameTriple(a, b) ==
    /\ a.params = b.params
    /\ a.results = b.results
    /\ a.is_for_function_entry = b.is_for_function_entry

\* C3: a == b holds exactly when params, results and is_for_function_entry
\* agree; the id and the debug name never influence the result.
C3_EqIsStructural ==
    tyRes.op = "eq" => (tyRes.eq <=> SameTriple(tyA, tyB))

\* C3's case: two Types with different ids and different names compared equal.
C3_Witness ==
    /\ tyRes.op = "eq"
    /\ tyRes.eq
    /\ tyA.id # tyB.id
    /\ tyA.name # tyB.name
    /\ tyA.results # <<>>

\* C3, second case: a function-entry Type compared unequal to the normal Type
\* with the same params and results.
C3_WitnessEntry ==
    /\ tyRes.op = "eq"
    /\ ~tyRes.eq
    /\ tyA.params = tyB.params /\ tyA.results = tyB.results
    /\ tyA.is_for_function_entry /\ ~tyB.is_for_function_entry

\* C4: the ordering of Types agrees with equality: a.cmp(b) is Equal exactly
\* when a == b; it compares params first and results second.
C4_OrdAgreesWithEq ==
    tyRes.op = "cmp" =>
        /\ (tyRes.ord = Equal) <=> TypeEq(tyA, tyB)
        /\ SliceCmp(tyA.params, tyB.params) # Equal
              => tyRes.ord = SliceCmp(tyA.params, tyB.params)
        /\ (SliceCmp(tyA.params, tyB.params) = Equal
            /\ SliceCmp(tyA.results, tyB.results) # Equal)
              => tyRes.ord = SliceCmp(tyA.results, tyB.results)

\* what does hold of the code's cmp: it is the lexicographic order of
\* (params, results) alone, so Equal says only that params and results agree
C4_OrdIgnoresFlag ==
    tyRes.op = "cmp" =>
        /\ (tyRes.ord = Equal) <=> (tyA.params = tyB.params /\ tyA.results = tyB.results)
        /\ TypeEq(tyA, tyB) => tyRes.ord = Equal

(***************************************************************************)
(* The external binary schema (wasmparser on the decode side, wasm_encoder *)
(* on the encode side).  Its abstract heap types carry their schema names, *)
(* and include the continuation types the internal model has no room for.  *)
(***************************************************************************)
WasmAbstractHeapTypes ==
    {"func", "extern", "any", "none", "noextern", "nofunc",
     "eq", "struct", "array", "i31", "exn", "noexn", "cont", "nocont"}

WAbstract(shared, ty) == [tag |-> "Abstract", shared |-> shared, ty |-> ty]
WConcrete(idx) == [tag |-> "Concrete", idx |-> idx]
WExact(idx) == [tag |-> "Exact", idx |-> idx]

WasmHeapTypes ==
    {WAbstract(sh, t) : sh \in BOOLEAN, t \in WasmAbstractHeapTypes}
    \cup {WConcrete(i) : i \in ConcreteIdxs}
    \cup {WExact(i) : i \in ConcreteIdxs}

WRefType(nullable, heap_type) == [nullable |-> nullable, heap_type |-> heap_type]

WNum(tag) == [tag |-> tag]
WRef(r) == [tag |-> "ref", ref |-> r]

WasmValTypes ==
    {WNum(t) : t \in {"i32", "i64", "f32", "f64", "v128"}}
    \cup {WRef(WRefType(n, h)) : n \in BOOLEAN, h \in WasmHeapTypes}

\* wasmparser::RefType::{CONT, CONTREF, NOCONT, NULLCONTREF}
W_CONT == WRefType(FALSE, WAbstract(FALSE, "cont"))
W_CONTREF == WRefType(TRUE, WAbstract(FALSE, "cont"))
W_NOCONT == WRefType(FALSE, WAbstract(FALSE, "nocont"))
W_NULLCONTREF == WRefType(TRUE, WAbstract(FALSE, "nocont"))

\* Result<T>: Ok(value) or an error (anyhow::bail!)
Ok(v) == [ok |-> TRUE, val |-> v]
Err(msg) == [ok |-> FALSE, err |-> msg]

\* the outcome of todo!(): the call panics and yields no value
Panic == [tag |-> "Panic"]

\* a plausible bug: two arms of the match are crossed
AbstractHeapTypeIntoCrossed(a) ==
    CASE a = "Func" -> "func"
      [] a = "Extern" -> "extern"
      [] a = "Any" -> "any"
      [] a = "None" -> "none"
      [] a = "NoExtern" -> "nofunc"
      [] a = "NoFunc" -> "noextern"
      [] a = "Eq" -> "eq"
      [] a = "Struct" -> "struct"
      [] a = "Array" -> "array"
      [] a = "I31" -> "i31"
      [] a = "Exn" -> "exn"
      [] a = "NoExn" -> "noexn"

\* impl Into<wasm_encoder::AbstractHeapType> for AbstractHeapType
AbstractHeapTypeInto(a) ==
    CASE a = "Func" -> "func"
      [] a = "Extern" -> "extern"
      [] a = "Any" -> "any"
      [] a = "None" -> "none"
      [] a = "NoExtern" -> "noextern"
      [] a = "NoFunc" -> "nofunc"
      [] a = "Eq" -> "eq"
      [] a = "Struct" -> "struct"
      [] a = "Array" -> "array"
      [] a = "I31" -> "i31"
      [] a = "Exn" -> "exn"
      [] a = "NoExn" -> "noexn"

\* impl TryFrom<wasmparser::AbstractHeapType> for AbstractHeapType
AbstractHeapTypeTryFrom(w) ==
    CASE w = "func" -> Ok("Func")
      [] w = "extern" -> Ok("Extern")
      [] w = "any" -> Ok("Any")
      [] w = "none" -> Ok("None")
      [] w = "noextern" -> Ok("NoExtern")
      [] w = "nofunc" -> Ok("NoFunc")
      [] w = "eq" -> Ok("Eq")
      [] w = "struct" -> Ok("Struct")
      [] w = "array" -> Ok("Array")
      [] w = "i31" -> Ok("I31")
      [] w = "exn" -> Ok("Exn")
      [] w = "noexn" -> Ok("NoExn")
      [] w \in {"cont", "nocont"} -> Err("Stack switching proposal is not supported")

\* a plausible bug: the unimplemented arm encodes the index instead of aborting
ToWasmEncoderHeapTypeConcrete(h) ==
    IF h.tag = "Abstract"
        THEN WAbstract(FALSE, AbstractHeapTypeInto(h.ty))
        ELSE WConcrete(h.idx)

\* HeapType::to_wasmencoder_heap_type
ToWasmEncoderHeapType(h) ==
    IF h.tag = "Abstract"
        THEN WAbstract(FALSE, AbstractHeapTypeInto(h.ty))
        ELSE Panic

\* a plausible bug: an indexed heap type is taken over instead of rejected
HeapTypeTryFromTakesIndex(w) ==
    IF w.tag = "Abstract"
        THEN LET ty == AbstractHeapTypeTryFrom(w.ty)
             IN  IF ty.ok THEN Ok(Abstract(ty.val)) ELSE ty
        ELSE Ok(Concrete(w.idx))

\* impl TryFrom<wasmparser::HeapType> for HeapType ("?" hands the error on)
HeapTypeTryFrom(w) ==
    IF w.tag = "Abstract"
        THEN LET ty == AbstractHeapTypeTryFrom(w.ty)
             IN  IF ty.ok THEN Ok(Abstract(ty.val)) ELSE ty
        ELSE Err("concrete (indexed) heap types are not yet supported")

\* RefType::to_wasmencoder_ref_type
ToWasmEncoderRefType(r) ==
    LET h == ToWasmEncoderHeapType(r.heap_type)
    IN  IF h = Panic THEN Panic ELSE WRefType(r.nullable, h)

\* a plausible bug: the nullable flag read is dropped
RefTypeTryFromNullable(w) ==
    LET h == HeapTypeTryFrom(w.heap_type)
    IN  IF h.ok THEN Ok(RefType(TRUE, h.val)) ELSE h

\* impl TryFrom<wasmparser::RefType> for RefType
RefTypeTryFrom(w) ==
    LET h == HeapTypeTryFrom(w.heap_type)
    IN  IF h.ok THEN Ok(RefType(w.nullable, h.val)) ELSE h

\* ValType::to_wasmencoder_type
ToWasmEncoderType(v) ==
    CASE v.tag = "I32" -> WNum("i32")
      [] v.tag = "I64" -> WNum("i64")
      [] v.tag = "F32" -> WNum("f32")
      [] v.tag = "F64" -> WNum("f64")
      [] v.tag = "V128" -> WNum("v128")
      [] v.tag = "Ref" ->
            LET r == ToWasmEncoderRefType(v.ref)
            IN  IF r = Panic THEN Panic ELSE WRef(r)

\* ValType::parse
ValTypeParse(w) ==
    CASE w.tag = "i32" -> Ok(I32)
      [] w.tag = "i64" -> Ok(I64)
      [] w.tag = "f32" -> Ok(Num("F32"))
      [] w.tag = "f64" -> Ok(Num("F64"))
      [] w.tag = "v128" -> Ok(Num("V128"))
      [] w.tag = "ref" ->
            IF w.ref \in {W_CONT, W_CONTREF, W_NULLCONTREF, W_NOCONT}
                THEN Err("The stack switching proposal is not supported")
                ELSE LET r == RefTypeTryFrom(w.ref)
                     IN  IF r.ok THEN Ok(Ref(r.val)) ELSE r

(***************************************************************************)
(* Text rendering (fmt::Display).                                          *)
(***************************************************************************)
Digits == <<"0", "1", "2", "3", "4", "5", "6", "7", "8", "9">>

\* the decimal rendering "{id}" of a u32
RECURSIVE ToDec(_)
ToDec(n) ==
    IF n < 10 THEN Digits[n + 1] ELSE ToDec(n \div 10) \o Digits[(n % 10) + 1]

\* impl fmt::Display for HeapType
HeapTypeDisplay(h) ==
    IF h.tag = "Abstract"
        THEN CASE h.ty = "Func" -> "func"
               [] h.ty = "Extern" -> "extern"
               [] h.ty = "Any" -> "any"
               [] h.ty = "None" -> "none"
               [] h.ty = "NoExtern" -> "noextern"
               [] h.ty = "NoFunc" -> "nofunc"
               [] h.ty = "Eq" -> "eq"
               [] h.ty = "Struct" -> "struct"
               [] h.ty = "Array" -> "array"
               [] h.ty = "I31" -> "i31"
               [] h.ty = "Exn" -> "exn"
               [] h.ty = "NoExn" -> "noexn"
        ELSE ToDec(h.idx)

\* a plausible bug: the shorthand arm of i31 is missing and the nullable
\* i31 reference falls back to the parenthesized form
RefTypeDisplayNoI31(r) ==
    IF r.nullable /\ r.heap_type # Abstract("I31")
        THEN CASE r.heap_type = Abstract("Func") -> "funcref"
               [] r.heap_type = Abstract("Extern") -> "externref"
               [] r.heap_type = Abstract("Exn") -> "exnref"
               [] r.heap_type = Abstract("Any") -> "anyref"
               [] r.heap_type = Abstract("Eq") -> "eqref"
               [] r.heap_type = Abstract("Struct") -> "structref"
               [] r.heap_type = Abstract("Array") -> "arrayref"
               [] r.heap_type = Abstract("None") -> "nullref"
               [] r.heap_type = Abstract("NoExtern") -> "nullexternref"
               [] r.heap_type = Abstract("NoFunc") -> "nullfuncref"
               [] r.heap_type = Abstract("NoExn") -> "nullexnref"
               [] r.heap_type.tag = "Concrete" ->
                     "(ref null " \o ToDec(r.heap_type.idx) \o ")"
        ELSE IF r.nullable
            THEN "(ref null " \o HeapTypeDisplay(r.heap_type) \o ")"
            ELSE "(ref " \o HeapTypeDisplay(r.heap_type) \o ")"

\* impl fmt::Display for RefType
RefTypeDisplay(r) ==
    IF r.nullable
        THEN CASE r.heap_type = Abstract("Func") -> "funcref"
               [] r.heap_type = Abstract("Extern") -> "externref"
               [] r.heap_type = Abstract("Exn") -> "exnref"
               [] r.heap_type = Abstract("Any") -> "anyref"
               [] r.heap_type = Abstract("Eq") -> "eqref"
               [] r.heap_type = Abstract("I31") -> "i31ref"
               [] r.heap_type = Abstract("Struct") -> "structref"
               [] r.heap_type = Abstract("Array") -> "arrayref"
               [] r.heap_type = Abstract("None") -> "nullref"
               [] r.heap_type = Abstract("NoExtern") -> "nullexternref"
               [] r.heap_type = Abstract("NoFunc") -> "nullfuncref"
               [] r.heap_type = Abstract("NoExn") -> "nullexnref"
               [] r.heap_type.tag = "Concrete" ->
                     "(ref null " \o ToDec(r.heap_type.idx) \o ")"
        ELSE "(ref " \o HeapTypeDisplay(r.heap_type) \o ")"

\* impl fmt::Display for ValType
ValTypeDisplay(v) ==
    CASE v.tag = "I32" -> "i32"
      [] v.tag = "I64" -> "i64"
      [] v.tag = "F32" -> "f32"
      [] v.tag = "F64" -> "f64"
      [] v.tag = "V128" -> "v128"
      [] v.tag = "Ref" -> RefTypeDisplay(v.ref)

(***************************************************************************)
(* The conversion steps: each applies one conversion to the drawn inputs.  *)
(***************************************************************************)
ConvStep(op, res) ==
    /\ convOut' = [op |-> op, res |-> res]
    /\ UNCHANGED <<wpIn, vtIn, internerVars, cmpVars, buildVars>>

\* decode: ValType::parse of an external value type
Parse == ConvStep("parse", ValTypeParse(wpIn))

\* encode: ValType::to_wasmencoder_type
Encode == ConvStep("encode", ToWasmEncoderType(vtIn))

\* encode a reference type: RefType::to_wasmencoder_ref_type
EncodeRef ==
    /\ vtIn.tag = "Ref"
    /\ ConvStep("encode_ref", ToWasmEncoderRefType(vtIn.ref))

\* encode a heap type: HeapType::to_wasmencoder_heap_type
EncodeHeap ==
    /\ vtIn.tag = "Ref"
    /\ ConvStep("encode_heap", ToWasmEncoderHeapType(vtIn.ref.heap_type))

\* decode, then encode what was decoded
ParseThenEncode ==
    /\ ValTypeParse(wpIn).ok
    /\ ConvStep("parse_encode", ToWasmEncoderType(ValTypeParse(wpIn).val))

\* encode, then decode what was encoded (an aborted encoding yields nothing)
EncodeThenParse ==
    /\ ToWasmEncoderType(vtIn) # Panic
    /\ ConvStep("encode_parse", ValTypeParse(ToWasmEncoderType(vtIn)))

\* render as text
Display == ConvStep("display", ValTypeDisplay(vtIn))

InitConv ==
    /\ wpIn \in WasmValTypes
    /\ vtIn \in ValTypeSet
    /\ convOut = [op |-> "none", res |-> Idle]
    /\ arena = <<>> /\ dead = {} /\ issued = <<>> /\ deleted = {}
    /\ interned = [s \in SigSet |-> NoId]
    /\ last = NoCall
    /\ tyA = Idle /\ tyB = Idle /\ tyRes = Idle
    /\ plan = Idle /\ bld = Idle /\ funcs = Idle /\ exports = Idle
    /\ tables = Idle /\ globals = Idle /\ fin = Idle /\ wire = Idle

NextConv ==
    \/ Parse
    \/ Encode
    \/ EncodeRef
    \/ EncodeHeap
    \/ ParseThenEncode
    \/ EncodeThenParse
    \/ Display

SpecConv == InitConv /\ [][NextConv]_vars

(***************************************************************************)
(* Properties of the conversions, checked under SpecConv.                  *)
(***************************************************************************)
\* the external abstract heap types the internal model supports
SupportedWasmAbstract ==
    {"func", "extern", "any", "none", "noextern", "nofunc",
     "eq", "struct", "array", "i31", "exn", "noexn"}

\* the external value types the specification says decode accepts
Decodable(w) ==
    \/ w.tag \in {"i32", "i64", "f32", "f64", "v128"}
    \/ /\ w.tag = "ref"
       /\ w.ref.heap_type.tag = "Abstract"
       /\ w.ref.heap_type.ty \in SupportedWasmAbstract

\* C6: decode succeeds exactly on I32, I64, F32, F64, V128 and on references
\* to one of the 12 supported abstract heap types; on every concrete, exact
\* and continuation heap type, nullable or not, it returns an error and no
\* internal type.
C6_DecodeAcceptsExactlySupported ==
    convOut.op = "parse" =>
        /\ convOut.res.ok <=> Decodable(wpIn)
        /\ convOut.res.ok => convOut.res.val \in ValTypeSet
        /\ ~convOut.res.ok => DOMAIN convOut.res = {"ok", "err"}

\* C6's case: a nullable reference to an exact heap type was decoded and
\* answered with an error.
C6_Witness ==
    /\ convOut.op = "parse"
    /\ wpIn.tag = "ref"
    /\ wpIn.ref.nullable
    /\ wpIn.ref.heap_type.tag = "Exact"
    /\ ~convOut.res.ok

\* C7: for every external reference type on which decode succeeds (shared
\* flag true or false), encoding the decoded type yields the external type
\* decode was given.
C7_DecodeEncodeRoundTrip ==
    (convOut.op = "parse_encode" /\ wpIn.tag = "ref") => convOut.res = wpIn

\* what does hold of the code: the round trip returns the external type with
\* its shared flag cleared
C7_RoundTripClearsShared ==
    (convOut.op = "parse_encode" /\ wpIn.tag = "ref") =>
        convOut.res = [wpIn EXCEPT !.ref.heap_type.shared = FALSE]

\* C8: encoding an internal ValType built only from abstract heap types and
\* decoding the result returns the original ValType.
C8_EncodeDecodeRoundTrip ==
    convOut.op = "encode_parse" => convOut.res = Ok(vtIn)

\* C8's case: a non-nullable reference to an abstract heap type went through
\* encode and decode.
C8_Witness ==
    /\ convOut.op = "encode_parse"
    /\ vtIn.tag = "Ref"
    /\ ~vtIn.ref.nullable
    /\ vtIn.ref.heap_type = Abstract("NoFunc")
    /\ convOut.res.ok

ContainsConcrete(v) == v.tag = "Ref" /\ v.ref.heap_type.tag = "Concrete"

\* C9: encoding a HeapType, RefType or ValType aborts and yields no encoded
\* value exactly when it contains a Concrete heap type.
C9_EncodeAbortsOnConcrete ==
    convOut.op \in {"encode", "encode_ref", "encode_heap"} =>
        /\ (convOut.res = Panic) <=> ContainsConcrete(vtIn)
        /\ (convOut.op = "encode" /\ ~ContainsConcrete(vtIn))
              => convOut.res \in WasmValTypes
        /\ (convOut.op = "encode_heap" /\ ~ContainsConcrete(vtIn))
              => convOut.res \in WasmHeapTypes

\* C9's case: the encoding of a non-nullable reference to a concrete heap
\* type aborted.
C9_Witness ==
    /\ convOut.op = "encode_ref"
    /\ ~vtIn.ref.nullable
    /\ vtIn.ref.heap_type.tag = "Concrete"
    /\ convOut.res = Panic

\* the text names of the abstract heap types
HeapTextName ==
    [Func |-> "func", Extern |-> "extern", Any |-> "any", None |-> "none",
     NoExtern |-> "noextern", NoFunc |-> "nofunc", Eq |-> "eq",
     Struct |-> "struct", Array |-> "array", I31 |-> "i31", Exn |-> "exn",
     NoExn |-> "noexn"]

\* the shorthand names of the nullable abstract reference types
ShorthandName ==
    [Func |-> "funcref", Extern |-> "externref", Any |-> "anyref",
     None |-> "nullref", NoExtern |-> "nullexternref", NoFunc |-> "nullfuncref",
     Eq |-> "eqref", Struct |-> "structref", Array |-> "arrayref",
     I31 |-> "i31ref", Exn |-> "exnref", NoExn |-> "nullexnref"]

\* the rendering the specification describes
CanonicalText(r) ==
    LET h == r.heap_type
        T == IF h.tag = "Abstract" THEN HeapTextName[h.ty] ELSE ToString(h.idx)
    IN  IF r.nullable /\ h.tag = "Abstract" THEN ShorthandName[h.ty]
        ELSE IF r.nullable THEN "(ref null " \o T \o ")"
        ELSE "(ref " \o T \o ")"

\* C10: a nullable abstract reference type renders as its shorthand name, a
\* non-nullable one as "(ref T)", a nullable concrete one as "(ref null T)".
C10_CanonicalDisplay ==
    (convOut.op = "display" /\ vtIn.tag = "Ref") =>
        /\ convOut.res = CanonicalText(vtIn.ref)
        /\ vtIn.ref = I31REF => convOut.res = "i31ref"
        /\ vtIn.ref = RefType(FALSE, Abstract("I31")) => convOut.res = "(ref i31)"

\* C10's case: the nullable i31 reference was rendered.
C10_Witness ==
    /\ convOut.op = "display"
    /\ vtIn = Ref(I31REF)
    /\ convOut.res = "i31ref"

(***************************************************************************)
(* The constants of RefType, checked under SpecConv.                       *)
(***************************************************************************)
HasConstant(h) == \E c \in RefTypeConstants : c.heap_type = h /\ c.nullable

\* C11: for each member of AbstractHeapType there is a RefType constant whose
\* heap type is that member and whose nullable flag is true, and no constant
\* is non-nullable.
C11_ConstantForEveryAbstract ==
    /\ (vtIn.tag = "Ref" /\ vtIn.ref.heap_type.tag = "Abstract")
          => HasConstant(vtIn.ref.heap_type)
    /\ \A c \in RefTypeConstants : c.nullable

\* C11 as amended: every member of AbstractHeapType but NoExn has a nullable
\* constant, NoExn has none, and every constant is nullable and abstract.
C11_ConstantForAllButNoExn ==
    /\ (vtIn.tag = "Ref" /\ vtIn.ref.heap_type.tag = "Abstract")
          => (HasConstant(vtIn.ref.heap_type) <=> vtIn.ref.heap_type # Abstract("NoExn"))
    /\ (vtIn.tag = "Ref" /\ vtIn.ref \in RefTypeConstants)
          => vtIn.ref.nullable /\ vtIn.ref.heap_type.tag = "Abstract"
    /\ \A c \in RefTypeConstants : c.nullable /\ c.heap_type.tag = "Abstract"
    /\ Cardinality(RefTypeConstants) = Len(AbstractHeapTypes) - 1
    /\ (convOut.op = "display" /\ vtIn.tag = "Ref" /\ vtIn.ref \in RefTypeConstants)
          => convOut.res = ShorthandName[vtIn.ref.heap_type.ty]

\* C11's case: a constant was rendered in its shorthand form.
C11_Witness ==
    /\ convOut.op = "display"
    /\ vtIn = Ref(NULLFUNCREF)
    /\ vtIn.ref \in RefTypeConstants
    /\ convOut.res = "nullfuncref"

(***************************************************************************)
(* Deleting a Type, checked under SpecCmp.                                 *)
(***************************************************************************)
IsCleared(t) == t.params = <<>> /\ t.results = <<>>

C17_WitnessTwice ==
    /\ tyRes.op = "delete"
    /\ IsCleared(tyRes.before)
    /\ tyA = tyRes.before

(***************************************************************************)
(* The function builder.  A function body is an id-indexed set of          *)
(* instruction sequences: sequence 1 is the implicit entry sequence, the   *)
(* others are dangling sequences, attached by a Block of another sequence. *)
(* Instructions name sequences by id; nothing is nested until emit time.   *)
(***************************************************************************)
\* the deepest nesting of blocks in a function body a client writes
MaxNest == 2

NoBuilder == [tag |-> "NoBuilder"]

\* the instructions a client appends
LocalGet(l) == [op |-> "local.get", local |-> l]
I32Const(v) == [op |-> "i32.const", value |-> v]
Drop == [op |-> "drop"]
RefI31 == [op |-> "ref.i31"]
I31GetU == [op |-> "i31.get_u"]
RefCast(nullable, heap_type) ==
    [op |-> "ref.cast", nullable |-> nullable, heap_type |-> heap_type]
RefTest(nullable, heap_type) ==
    [op |-> "ref.test", nullable |-> nullable, heap_type |-> heap_type]
Block(seq) == [op |-> "block", seq |-> seq]
BrOnCast(block, src_nullable, src_heap_type, dst_nullable, dst_heap_type) ==
    [op |-> "br_on_cast", block |-> block,
     src_nullable |-> src_nullable, src_heap_type |-> src_heap_type,
     dst_nullable |-> dst_nullable, dst_heap_type |-> dst_heap_type]
BrOnCastFail(block, src_nullable, src_heap_type, dst_nullable, dst_heap_type) ==
    [op |-> "br_on_cast_fail", block |-> block,
     src_nullable |-> src_nullable, src_heap_type |-> src_heap_type,
     dst_nullable |-> dst_nullable, dst_heap_type |-> dst_heap_type]

IsBranchOnCast(i) == i.op \in {"br_on_cast", "br_on_cast_fail"}

\* the declared target type of a cast or a test
CastTargetType(i) == RefType(i.nullable, i.heap_type)

\* the two reference types a branch-on-cast names
BrSrcType(i) == RefType(i.src_nullable, i.src_heap_type)
BrDstType(i) == RefType(i.dst_nullable, i.dst_heap_type)

\* the type of the value carried to the branch target
BrCarriedType(i) == IF i.op = "br_on_cast" THEN BrDstType(i) ELSE BrSrcType(i)

\* the type of the value left on the stack when the branch is not taken
BrFallthroughType(i) == IF i.op = "br_on_cast" THEN BrSrcType(i) ELSE BrDstType(i)

(***************************************************************************)
(* The static types a sequence leaves on the stack: every instruction is   *)
(* applied to the types below it, from the first to the last.              *)
(***************************************************************************)
Top(stack) == stack[Len(stack)]
Pop(stack) == SubSeq(stack, 1, Len(stack) - 1)
TopIsRef(stack) == stack # <<>> /\ Top(stack).tag = "Ref"

\* can the instruction be applied to the stack
Applicable(i, stack, params, seqs) ==
    CASE i.op = "local.get" -> i.local \in DOMAIN params
      [] i.op = "i32.const" -> TRUE
      [] i.op = "drop" -> stack # <<>>
      [] i.op = "ref.i31" -> stack # <<>> /\ Top(stack) = I32
      [] i.op = "i31.get_u" ->
            TopIsRef(stack) /\ Top(stack).ref.heap_type = Abstract("I31")
      [] i.op \in {"ref.cast", "ref.test"} -> TopIsRef(stack)
      [] i.op = "block" -> i.seq \in DOMAIN seqs
      [] IsBranchOnCast(i) ->
            /\ i.block \in DOMAIN seqs
            /\ stack # <<>> /\ Top(stack) = Ref(BrSrcType(i))

\* the stack after the instruction
Effect(i, stack, params, seqs) ==
    CASE i.op = "local.get" -> Append(stack, params[i.local])
      [] i.op = "i32.const" -> Append(stack, I32)
      [] i.op = "drop" -> Pop(stack)
      [] i.op = "ref.i31" -> Append(Pop(stack), Ref(I31REF))
      [] i.op = "i31.get_u" -> Append(Pop(stack), I32)
      [] i.op = "ref.cast" -> Append(Pop(stack), Ref(CastTargetType(i)))
      [] i.op = "ref.test" -> Append(Pop(stack), I32)
      [] i.op = "block" -> stack \o seqs[i.seq].ty
      [] IsBranchOnCast(i) -> Append(Pop(stack), Ref(BrFallthroughType(i)))

RECURSIVE StackFrom(_, _, _, _, _)
StackFrom(instrs, k, stack, params, seqs) ==
    IF k > Len(instrs) THEN stack
    ELSE StackFrom(instrs, k + 1, Effect(instrs[k], stack, params, seqs), params, seqs)

\* the static result types of a sequence
StaticResults(instrs, params, seqs) == StackFrom(instrs, 1, <<>>, params, seqs)

(***************************************************************************)
(* The builder's operations over the module's arenas.                      *)
(***************************************************************************)
\* the type arena after interning the probe, and the id interning answers
InternInto(slots, probe) ==
    LET found == Find(slots, {}, probe)
    IN  IF found # NoId THEN [slots |-> slots, id |-> found]
        ELSE [slots |-> ArenaAlloc(slots, probe), id |-> probe.id]

\* an instruction sequence: its declared result types and its instructions
InstrSeq(ty, instrs) == [ty |-> ty, instrs |-> instrs]

\* new(params, results): the function's type is interned, and so is the
\* function-entry type of the entry sequence; the entry sequence is allocated
NewBuilder(slots, params, results) ==
    LET t == InternInto(slots, TypeNew(ArenaNextId(slots), params, results))
        e == InternInto(t.slots, TypeForFunctionEntry(ArenaNextId(t.slots), results))
    IN  [slots |-> e.slots,
         bld |-> [ty |-> t.id, entry_ty |-> e.id, seqs |-> <<InstrSeq(results, <<>>)>>]]

\* the declared params / results of a builder or of a finished function
ParamsOf(slots, f) == ArenaSlot(slots, f.ty).params
ResultsOf(slots, f) == ArenaSlot(slots, f.ty).results

\* the static result types of the entry sequence
EntryResults(slots, b) == StaticResults(b.seqs[1].instrs, ParamsOf(slots, b), b.seqs)

\* finish's verification: the entry sequence leaves the declared results
FinishOk(slots, b) == SliceEq(EntryResults(slots, b), ResultsOf(slots, b))

(***************************************************************************)
(* The function bodies a client writes.  A body names its sequences by the *)
(* ids the builder will hand out: 1 for the entry sequence, then one per   *)
(* dangling sequence in the order the client allocates them.               *)
(***************************************************************************)
FuncPlan(params, results, seqs) == [params |-> params, results |-> results, seqs |-> seqs]

AnyAbstract == {Abstract(a) : a \in AbstractHeapTypeSet}

\* a cast or a test of the parameter, against a declared result
CastResultInputs ==
    {I32, Ref(ANYREF), Ref(I31REF), Ref(RefType(FALSE, Abstract("I31")))}

CastPlans ==
    {FuncPlan(<<Ref(ANYREF)>>, <<r>>, <<InstrSeq(<<r>>, <<LocalGet(1), c>>)>>) :
        c \in {RefCast(n, h) : n \in BOOLEAN, h \in AnyAbstract}
              \cup {RefTest(n, h) : n \in BOOLEAN, h \in AnyAbstract},
        r \in CastResultInputs}

\* the heap types a branch-on-cast narrows the parameter to
BranchHeapInputs == {Abstract("I31"), Abstract("Struct")}

BranchOps == {"br_on_cast", "br_on_cast_fail"}

BranchInstr(op, block, dst_nullable, dst_heap_type) ==
    IF op = "br_on_cast"
    THEN BrOnCast(block, TRUE, Abstract("Any"), dst_nullable, dst_heap_type)
    ELSE BrOnCastFail(block, TRUE, Abstract("Any"), dst_nullable, dst_heap_type)

\* a branch-on-cast in the entry sequence, to the function's own label: the
\* entry sequence ends with the value the branch lets fall through
FallResultInputs ==
    {Ref(ANYREF)} \cup {Ref(RefType(n, h)) : n \in BOOLEAN, h \in BranchHeapInputs}

FallPlans ==
    {FuncPlan(<<Ref(ANYREF)>>, <<r>>,
              <<InstrSeq(<<r>>, <<LocalGet(1), BranchInstr(op, 1, dn, dh)>>)>>) :
        op \in BranchOps, dn \in BOOLEAN, dh \in BranchHeapInputs,
        r \in FallResultInputs}

\* the sequence id of the block at nesting level l of d (1 is the outermost):
\* ids are handed out outermost first, or innermost first when rev
LevelId(l, d, rev) == IF rev THEN d + 2 - l ELSE l + 1

\* the nesting level of the block with sequence id k
IdLevel(k, d, rev) == IF rev THEN d + 2 - k ELSE k - 1

\* d nested blocks; the innermost tests the parameter and branches to the
\* sequence `target`; the entry sequence tests what the blocks leave
NestPlan(op, dn, dh, d, rev, target) ==
    LET ty == <<Ref(IF op = "br_on_cast" THEN RefType(dn, dh) ELSE ANYREF)>>
        inner ==
            IF op = "br_on_cast"
            THEN <<LocalGet(1), BranchInstr(op, target, dn, dh), RefCast(dn, dh)>>
            ELSE <<LocalGet(1), BranchInstr(op, target, dn, dh)>>
    IN  FuncPlan(<<Ref(ANYREF)>>, <<I32>>,
            [k \in 1..(d + 1) |->
                IF k = 1
                THEN InstrSeq(<<I32>>, <<Block(LevelId(1, d, rev)), RefTest(FALSE, dh)>>)
                ELSE IF IdLevel(k, d, rev) = d THEN InstrSeq(ty, inner)
                ELSE InstrSeq(ty, <<Block(LevelId(IdLevel(k, d, rev) + 1, d, rev))>>)])

NestPlans ==
    UNION {{NestPlan(op, dn, Abstract("I31"), d, rev, target) :
                op \in BranchOps, dn \in BOOLEAN, rev \in BOOLEAN,
                target \in 1..(d + 1)} :
           d \in 1..MaxNest}

\* bodies over a concrete (indexed) heap type
ConcretePlans ==
    {FuncPlan(<<Ref(RefType(TRUE, Concrete(0)))>>, <<>>, <<InstrSeq(<<>>, <<>>)>>),
     FuncPlan(<<Ref(ANYREF)>>, <<Ref(RefType(TRUE, Concrete(0)))>>,
              <<InstrSeq(<<Ref(RefType(TRUE, Concrete(0)))>>,
                         <<LocalGet(1), RefCast(TRUE, Concrete(0))>>)>>)}

\* bodies that box an i32 as an i31 reference
I31Plans ==
    {FuncPlan(<<I32>>, <<Ref(I31REF)>>,
              <<InstrSeq(<<Ref(I31REF)>>, <<LocalGet(1), RefI31>>)>>),
     FuncPlan(<<>>, <<I32>>, <<InstrSeq(<<I32>>, <<I32Const(42), RefI31, I31GetU>>)>>)}

PlanInputs == CastPlans \cup FallPlans \cup NestPlans \cup ConcretePlans \cup I31Plans

(***************************************************************************)
(* Emitting a module.  Nesting is resolved here: a Block's sequence becomes *)
(* the block's body, and a branch's target sequence becomes the number of  *)
(* enclosing labels between the branch and its target.                     *)
(***************************************************************************)
\* a list of value types in the binary schema
EncodeTypes(tys) == [k \in 1..Len(tys) |-> ToWasmEncoderType(tys[k])]

RECURSIVE NestInstr(_, _, _)
\* the body of sequence s, nested; labels are the enclosing sequences,
\* innermost first
NestSeq(seqs, s, labels) ==
    [k \in 1..Len(seqs[s].instrs) |-> NestInstr(seqs, seqs[s].instrs[k], labels)]

NestInstr(seqs, i, labels) ==
    CASE i.op = "block" ->
            [op |-> "block", ty |-> seqs[i.seq].ty,
             body |-> NestSeq(seqs, i.seq, <<i.seq>> \o labels)]
      [] IsBranchOnCast(i) ->
            [op |-> i.op, relative_depth |-> IndexOf(labels, i.block) - 1,
             from |-> BrSrcType(i), to |-> BrDstType(i)]
      [] OTHER -> i

\* the nested body of a function: the entry sequence is the outermost label
FuncBody(seqs) == NestSeq(seqs, 1, <<1>>)

RECURSIVE EncodeInstr(_)
EncodeBody(body) == [k \in 1..Len(body) |-> EncodeInstr(body[k])]

\* one instruction in the binary schema
EncodeInstr(i) ==
    CASE i.op = "local.get" -> [op |-> "LocalGet", index |-> i.local - 1]
      [] i.op = "i32.const" -> [op |-> "I32Const", value |-> i.value]
      [] i.op = "drop" -> [op |-> "Drop"]
      [] i.op = "ref.i31" -> [op |-> "RefI31"]
      [] i.op = "i31.get_u" -> [op |-> "I31GetU"]
      [] i.op = "ref.cast" ->
            [op |-> IF i.nullable THEN "RefCastNullable" ELSE "RefCastNonNull",
             heap_type |-> ToWasmEncoderHeapType(i.heap_type)]
      [] i.op = "ref.test" ->
            [op |-> IF i.nullable THEN "RefTestNullable" ELSE "RefTestNonNull",
             heap_type |-> ToWasmEncoderHeapType(i.heap_type)]
      [] i.op = "block" ->
            [op |-> "Block", ty |-> EncodeTypes(i.ty),
             body |-> EncodeBody(i.body)]
      [] i.op = "br_on_cast" ->
            [op |-> "BrOnCast", relative_depth |-> i.relative_depth,
             from_ref_type |-> ToWasmEncoderRefType(i.from),
             to_ref_type |-> ToWasmEncoderRefType(i.to)]
      [] i.op = "br_on_cast_fail" ->
            [op |-> "BrOnCastFail", relative_depth |-> i.relative_depth,
             from_ref_type |-> ToWasmEncoderRefType(i.from),
             to_ref_type |-> ToWasmEncoderRefType(i.to)]

\* does encoding the types abort
TypesAbort(tys) == \E k \in DOMAIN tys : ToWasmEncoderType(tys[k]) = Panic

RECURSIVE InstrAborts(_)
BodyAborts(body) == \E k \in DOMAIN body : InstrAborts(body[k])

\* does encoding the instruction abort
InstrAborts(i) ==
    CASE i.op \in {"ref.cast", "ref.test"} -> ToWasmEncoderHeapType(i.heap_type) = Panic
      [] i.op = "block" -> TypesAbort(i.ty) \/ BodyAborts(i.body)
      [] IsBranchOnCast(i) ->
            ToWasmEncoderRefType(i.from) = Panic \/ ToWasmEncoderRefType(i.to) = Panic
      [] OTHER -> FALSE

\* the ids of the type section: the live types that are not function-entry
\* types, in id order
EmittedTypeIds(slots, tomb) ==
    SelectSeq([k \in 1..Len(slots) |-> k - 1],
              LAMBDA id : id \notin tomb /\ ~ArenaSlot(slots, id).is_for_function_entry)

\* emit_wasm: the module in the binary schema, or the abort of a conversion
EmitWasm(slots, tomb, fs, exps, tabs, globs) ==
    LET ids == EmittedTypeIds(slots, tomb)
        aborts ==
            \/ \E k \in DOMAIN tabs : ToWasmEncoderRefType(tabs[k].element_ty) = Panic
            \/ \E k \in DOMAIN globs : ToWasmEncoderType(globs[k].ty) = Panic
            \/ \E k \in DOMAIN ids :
                  \/ TypesAbort(ArenaSlot(slots, ids[k]).params)
                  \/ TypesAbort(ArenaSlot(slots, ids[k]).results)
            \/ \E k \in DOMAIN fs : BodyAborts(FuncBody(fs[k].seqs))
    IN  IF aborts THEN Panic
        ELSE Ok([types |->
                    [k \in DOMAIN ids |->
                        [params |-> EncodeTypes(ArenaSlot(slots, ids[k]).params),
                         results |-> EncodeTypes(ArenaSlot(slots, ids[k]).results)]],
                 funcs |->
                    [k \in DOMAIN fs |->
                        [ty |-> IndexOf(ids, fs[k].ty) - 1,
                         body |-> EncodeBody(FuncBody(fs[k].seqs))]],
                 tables |->
                    [k \in DOMAIN tabs |->
                        [element_type |-> ToWasmEncoderRefType(tabs[k].element_ty),
                         table64 |-> tabs[k].table64,
                         minimum |-> tabs[k].initial, maximum |-> tabs[k].maximum]],
                 globals |->
                    [k \in DOMAIN globs |->
                        [val_type |-> ToWasmEncoderType(globs[k].ty),
                         mutable |-> globs[k].mutable, shared |-> globs[k].shared]],
                 exports |->
                    [k \in DOMAIN exps |->
                        [name |-> exps[k].name, kind |-> "func", index |-> exps[k].func]]])

(***************************************************************************)
(* Reading a module back.  The result is the module's structure: its set   *)
(* of signatures, and per function its signature and its nested body; the  *)
(* ids the arenas hand out while reading are not part of it.               *)
(***************************************************************************)
\* the values of a sequence of results, or its first error ("?")
Collect(rs) ==
    IF \A k \in DOMAIN rs : rs[k].ok
    THEN Ok([k \in DOMAIN rs |-> rs[k].val])
    ELSE rs[Min({k \in DOMAIN rs : ~rs[k].ok})]

ParseTypes(ws) == Collect([k \in 1..Len(ws) |-> ValTypeParse(ws[k])])

\* a branch-on-cast read back
ParseBranch(op, w) ==
    LET from == RefTypeTryFrom(w.from_ref_type)
        to == RefTypeTryFrom(w.to_ref_type)
    IN  IF ~from.ok THEN from
        ELSE IF ~to.ok THEN to
        ELSE Ok([op |-> op, relative_depth |-> w.relative_depth,
                 from |-> from.val, to |-> to.val])

\* a cast or a test read back
ParseCast(op, nullable, w) ==
    LET h == HeapTypeTryFrom(w.heap_type)
    IN  IF h.ok THEN Ok([op |-> op, nullable |-> nullable, heap_type |-> h.val]) ELSE h

RECURSIVE ParseInstr(_)
ParseBody(ws) == Collect([k \in 1..Len(ws) |-> ParseInstr(ws[k])])

\* one instruction read back
ParseInstr(w) ==
    CASE w.op = "LocalGet" -> Ok(LocalGet(w.index + 1))
      [] w.op = "I32Const" -> Ok(I32Const(w.value))
      [] w.op = "Drop" -> Ok(Drop)
      [] w.op = "RefI31" -> Ok(RefI31)
      [] w.op = "I31GetU" -> Ok(I31GetU)
      [] w.op = "RefCastNullable" -> ParseCast("ref.cast", TRUE, w)
      [] w.op = "RefCastNonNull" -> ParseCast("ref.cast", FALSE, w)
      [] w.op = "RefTestNullable" -> ParseCast("ref.test", TRUE, w)
      [] w.op = "RefTestNonNull" -> ParseCast("ref.test", FALSE, w)
      [] w.op = "Block" ->
            LET ty == ParseTypes(w.ty)
                body == ParseBody(w.body)
            IN  IF ~ty.ok THEN ty
                ELSE IF ~body.ok THEN body
                ELSE Ok([op |-> "block", ty |-> ty.val, body |-> body.val])
      [] w.op = "BrOnCast" -> ParseBranch("br_on_cast", w)
      [] w.op = "BrOnCastFail" -> ParseBranch("br_on_cast_fail", w)

\* a signature of the type section read back
ParseSig(w) ==
    LET params == ParseTypes(w.params)
        results == ParseTypes(w.results)
    IN  IF ~params.ok THEN params
        ELSE IF ~results.ok THEN results
        ELSE Ok([params |-> params.val, results |-> results.val])

\* the type arena after interning every signature, in order
RECURSIVE InternAll(_, _, _)
InternAll(slots, sigs, k) ==
    IF k > Len(sigs) THEN slots
    ELSE InternAll(InternInto(slots, TypeNew(ArenaNextId(slots), sigs[k].params,
                                              sigs[k].results)).slots,
                   sigs, k + 1)

\* the signatures of the live types that are not function-entry types
Signatures(slots, tomb) ==
    {[params |-> ArenaSlot(slots, id).params, results |-> ArenaSlot(slots, id).results] :
        id \in {x \in ArenaIter(slots, tomb) : ~ArenaSlot(slots, x).is_for_function_entry}}

\* Module::from_buffer: the structure of the module read back, or an error
FromBuffer(w) ==
    LET sigs == Collect([k \in DOMAIN w.types |-> ParseSig(w.types[k])])
        bodies == Collect([k \in DOMAIN w.funcs |-> ParseBody(w.funcs[k].body)])
        elems == Collect([k \in DOMAIN w.tables |-> RefTypeTryFrom(w.tables[k].element_type)])
        gtys == Collect([k \in DOMAIN w.globals |-> ValTypeParse(w.globals[k].val_type)])
    IN  IF ~sigs.ok THEN sigs
        ELSE IF ~elems.ok THEN elems
        ELSE IF ~gtys.ok THEN gtys
        ELSE IF ~bodies.ok THEN bodies
        ELSE Ok([types |-> Signatures(InternAll(<<>>, sigs.val, 1), {}),
                 funcs |->
                    [k \in DOMAIN w.funcs |->
                        [params |-> sigs.val[w.funcs[k].ty + 1].params,
                         results |-> sigs.val[w.funcs[k].ty + 1].results,
                         body |-> bodies.val[k]]],
                 tables |->
                    [k \in DOMAIN w.tables |->
                        [element_ty |-> elems.val[k], table64 |-> w.tables[k].table64,
                         initial |-> w.tables[k].minimum, maximum |-> w.tables[k].maximum]],
                 globals |->
                    [k \in DOMAIN w.globals |->
                        [ty |-> gtys.val[k], mutable |-> w.globals[k].mutable,
                         shared |-> w.globals[k].shared]],
                 exports |->
                    [k \in DOMAIN w.exports |->
                        [name |-> w.exports[k].name, func |-> w.exports[k].index]]])

\* the structure of the module in the arenas
ModuleStructure(slots, tomb, fs, exps, tabs, globs) ==
    [types |-> Signatures(slots, tomb),
     funcs |->
        [k \in DOMAIN fs |->
            [params |-> ParamsOf(slots, fs[k]), results |-> ResultsOf(slots, fs[k]),
             body |-> FuncBody(fs[k].seqs)]],
     tables |-> tabs,
     globals |-> globs,
     exports |-> exps]

(***************************************************************************)
(* The client's calls on the builder and on the module.                    *)
(***************************************************************************)
\* the names a client exports a function under
ExportNames == {"f"}

NoFin == [op |-> "none"]
NoWire == [op |-> "none"]

\* what no builder operation touches
buildFrame == <<dead, issued, deleted, interned, last, cmpVars, convVars>>

\* FunctionBuilder::new
BuilderNew(p) ==
    /\ bld = NoBuilder
    /\ fin = NoFin
    /\ plan' = p
    /\ LET n == NewBuilder(arena, p.params, p.results)
       IN  arena' = n.slots /\ bld' = n.bld
    /\ wire' = NoWire
    /\ UNCHANGED <<funcs, exports, tables, globals, fin, buildFrame>>

\* dangling_instr_seq(ty): a new sequence that no instruction refers to yet
DanglingInstrSeq ==
    /\ bld # NoBuilder
    /\ Len(bld.seqs) < Len(plan.seqs)
    /\ bld' = [bld EXCEPT !.seqs = Append(@, InstrSeq(plan.seqs[Len(@) + 1].ty, <<>>))]
    /\ UNCHANGED <<arena, plan, funcs, exports, tables, globals, fin, wire, buildFrame>>

\* instr_seq(s).instr(i): the next instruction of sequence s is appended; the
\* sequences it names have been allocated, attached or not
AppendInstr(s) ==
    /\ bld # NoBuilder
    /\ s \in DOMAIN bld.seqs
    /\ Len(bld.seqs[s].instrs) < Len(plan.seqs[s].instrs)
    /\ LET i == plan.seqs[s].instrs[Len(bld.seqs[s].instrs) + 1]
           params == ParamsOf(arena, bld)
       IN  /\ Applicable(i, StaticResults(bld.seqs[s].instrs, params, bld.seqs),
                         params, bld.seqs)
           /\ bld' = [bld EXCEPT !.seqs[s].instrs = Append(@, i)]
    /\ UNCHANGED <<arena, plan, funcs, exports, tables, globals, fin, wire, buildFrame>>

\* finish(args, funcs), called once the body is written: the builder is
\* consumed; the function is inserted only when the entry sequence leaves
\* the declared results
Finish ==
    /\ bld # NoBuilder
    /\ bld.seqs = plan.seqs
    /\ LET ok == FinishOk(arena, bld)
           id == ArenaNextId(funcs)
       IN  /\ funcs' = IF ok THEN ArenaAlloc(funcs, [ty |-> bld.ty, seqs |-> bld.seqs])
                       ELSE funcs
           /\ fin' = [op |-> "finish",
                      ret |-> IF ok THEN Ok(id) ELSE Err("BuilderMisuse"),
                      entry |-> EntryResults(arena, bld),
                      declared |-> ResultsOf(arena, bld),
                      before |-> funcs]
    /\ bld' = NoBuilder
    /\ wire' = NoWire
    /\ UNCHANGED <<arena, plan, exports, tables, globals, buildFrame>>

\* exports.add(name, func)
ExportAdd(name, id) ==
    /\ bld = NoBuilder
    /\ id \in 0..(Len(funcs) - 1)
    /\ \A k \in DOMAIN exports : exports[k].name # name
    /\ exports' = Append(exports, [name |-> name, func |-> id])
    /\ wire' = NoWire
    /\ UNCHANGED <<arena, plan, bld, funcs, tables, globals, fin, buildFrame>>

\* the round trip of the tests: emit_wasm, then Module::from_buffer on the
\* bytes when there are bytes
RoundTrip ==
    /\ bld = NoBuilder
    /\ LET bytes == EmitWasm(arena, dead, funcs, exports, tables, globals)
       IN  wire' = [op |-> "round_trip",
                    module |-> ModuleStructure(arena, dead, funcs, exports, tables, globals),
                    bytes |-> bytes,
                    back |-> IF bytes = Panic THEN NoData ELSE FromBuffer(bytes.val)]
    /\ UNCHANGED <<arena, plan, bld, funcs, exports, tables, globals, fin, buildFrame>>

\* the element types of the tables and the types of the globals a client adds
TableInputs == {ANYREF}
GlobalInputs == {I32}

\* tables.add_local(table64, initial, maximum, element_ty), before any
\* function is built
TablesAddLocal(element_ty) ==
    /\ bld = NoBuilder /\ fin = NoFin
    /\ \A k \in DOMAIN tables : tables[k].element_ty # element_ty
    /\ tables' = Append(tables, [table64 |-> FALSE, initial |-> 128, maximum |-> <<128>>,
                                  element_ty |-> element_ty])
    /\ wire' = NoWire
    /\ UNCHANGED <<arena, plan, bld, funcs, exports, globals, fin, buildFrame>>

\* globals.add_local(ty, mutable, shared, init), before any function is built
GlobalsAddLocal(ty) ==
    /\ bld = NoBuilder /\ fin = NoFin
    /\ \A k \in DOMAIN globals : globals[k].ty # ty
    /\ globals' = Append(globals, [ty |-> ty, mutable |-> TRUE, shared |-> FALSE])
    /\ wire' = NoWire
    /\ UNCHANGED <<arena, plan, bld, funcs, exports, tables, fin, buildFrame>>

\* the module a builder is opened on: an empty one, or one that already holds
\* the finished and exported function () -> i32 of body i32.const 42
PriorBuilder == NewBuilder(<<>>, <<>>, <<I32>>)

PriorModules ==
    {[types |-> <<>>, funcs |-> <<>>, exports |-> <<>>],
     [types |-> PriorBuilder.slots,
      funcs |-> <<[ty |-> PriorBuilder.bld.ty,
                   seqs |-> <<InstrSeq(<<I32>>, <<I32Const(42)>>)>>]>>,
      exports |-> <<[name |-> "g", func |-> 0]>>]}

NoPlan == [tag |-> "NoPlan"]

InitBuild ==
    /\ \E m \in PriorModules :
          arena = m.types /\ funcs = m.funcs /\ exports = m.exports
    /\ dead = {}
    /\ issued = Idle /\ deleted = Idle /\ interned = Idle /\ last = Idle
    /\ tyA = Idle /\ tyB = Idle /\ tyRes = Idle
    /\ wpIn = Idle /\ vtIn = Idle /\ convOut = Idle
    /\ tables = <<>> /\ globals = <<>>
    /\ plan = NoPlan
    /\ bld = NoBuilder
    /\ fin = NoFin
    /\ wire = NoWire

NextBuild ==
    \/ \E p \in PlanInputs : BuilderNew(p)
    \/ DanglingInstrSeq
    \/ \E s \in 1..(MaxNest + 1) : AppendInstr(s)
    \/ Finish
    \/ \E name \in ExportNames : \E id \in 0..1 : ExportAdd(name, id)
    \/ \E r \in TableInputs : TablesAddLocal(r)
    \/ \E ty \in GlobalInputs : GlobalsAddLocal(ty)
    \/ RoundTrip

SpecBuild == InitBuild /\ [][NextBuild]_vars

(***************************************************************************)
(* Properties of the builder, checked under SpecBuild.                     *)
(***************************************************************************)
Finished == fin.op = "finish"
Inserted == Finished /\ fin.ret.ok
RoundTripped == wire.op = "round_trip"

\* the client's body is local.get of the parameter followed by a ref.cast
IsCastBody ==
    /\ plan # NoPlan
    /\ Len(plan.seqs) = 1
    /\ Len(plan.seqs[1].instrs) = 2
    /\ plan.seqs[1].instrs[1] = LocalGet(1)
    /\ plan.seqs[1].instrs[2].op = "ref.cast"

\* the reference type a cast instruction names, field by field
NamedType(c) == [nullable |-> c.nullable, heap_type |-> c.heap_type]

\* C12: the declared result type of a cast or test to a non-nullable heap
\* type H is exactly the reference type of nullable false and heap type H,
\* which differs from the nullable alias of H for every H; a body that casts
\* the parameter finishes exactly against the declared result that is the
\* cast's type (ref_cast(false, I31) against (ref i31), ref_cast(true, I31)
\* against I31REF), and the cast survives the round trip.
C12_NonNullableCastExact ==
    /\ \A h \in HeapTypeSet :
          /\ CastTargetType(RefCast(FALSE, h)) = [nullable |-> FALSE, heap_type |-> h]
          /\ CastTargetType(RefTest(FALSE, h)) = [nullable |-> FALSE, heap_type |-> h]
          /\ CastTargetType(RefCast(FALSE, h)) # CastTargetType(RefCast(TRUE, h))
          /\ CastTargetType(RefCast(FALSE, h)) \notin RefTypeConstants
    /\ (Finished /\ IsCastBody) =>
          LET c == plan.seqs[1].instrs[2]
          IN  /\ fin.entry = <<Ref(NamedType(c))>>
              /\ fin.ret.ok <=> plan.results = <<Ref(NamedType(c))>>
              /\ (c = RefCast(FALSE, Abstract("I31")) /\ fin.ret.ok)
                    => plan.results # <<Ref(I31REF)>>
              /\ (RoundTripped /\ fin.ret.ok /\ wire.bytes # Panic) =>
                    /\ wire.back.ok
                    /\ wire.back.val = wire.module
                    /\ wire.back.val.funcs[fin.ret.val + 1].body = <<LocalGet(1), c>>
                    /\ wire.back.val.funcs[fin.ret.val + 1].results = <<Ref(NamedType(c))>>

\* C12's case: local.get; ref_cast(false, I31) was finished against (ref i31)
\* and the module was emitted and read back.
C12_Witness ==
    /\ Inserted /\ IsCastBody
    /\ plan.seqs[1].instrs[2] = RefCast(FALSE, Abstract("I31"))
    /\ plan.results = <<Ref([nullable |-> FALSE, heap_type |-> Abstract("I31")])>>
    /\ RoundTripped /\ wire.back.ok

\* C12, second case: ref_cast(true, I31) was finished against I31REF.
C12_WitnessNullable ==
    /\ Inserted /\ IsCastBody
    /\ plan.seqs[1].instrs[2] = RefCast(TRUE, Abstract("I31"))
    /\ plan.results = <<Ref(I31REF)>>

\* C12, third case: the non-nullable cast was refused against I31REF.
C12_WitnessRefused ==
    /\ Finished /\ ~fin.ret.ok /\ IsCastBody
    /\ plan.seqs[1].instrs[2] = RefCast(FALSE, Abstract("I31"))
    /\ plan.results = <<Ref(I31REF)>>

\* the instructions of a set of sequences
InstrsOf(seqs) == UNION {{seqs[k].instrs[j] : j \in DOMAIN seqs[k].instrs} : k \in DOMAIN seqs}

\* every branch-on-cast appended so far: in the open builder and in the
\* finished functions
Branches ==
    {i \in (IF bld = NoBuilder THEN {} ELSE InstrsOf(bld.seqs))
           \cup UNION {InstrsOf(funcs[k].seqs) : k \in DOMAIN funcs} : IsBranchOnCast(i)}

\* the two types a branch-on-cast was given, field by field
GivenSrc(b) == [nullable |-> b.src_nullable, heap_type |-> b.src_heap_type]
GivenDst(b) == [nullable |-> b.dst_nullable, heap_type |-> b.dst_heap_type]

\* the edge of a branch-on-cast on which the value is known to be of the
\* destination type
NarrowedType(b) == IF b.op = "br_on_cast" THEN BrCarriedType(b) ELSE BrFallthroughType(b)

\* the client's body is local.get of the parameter followed by a
\* branch-on-cast to the function's own label
IsFallBody ==
    /\ plan # NoPlan
    /\ Len(plan.seqs) = 1
    /\ Len(plan.seqs[1].instrs) = 2
    /\ plan.seqs[1].instrs[1] = LocalGet(1)
    /\ IsBranchOnCast(plan.seqs[1].instrs[2])

C13_WitnessCarried ==
    /\ Inserted
    /\ Len(plan.seqs) > 1
    /\ \E b \in Branches :
          /\ b.op = "br_on_cast" /\ ~b.dst_nullable /\ b.block > 1
          /\ plan.seqs[b.block].ty = <<Ref(BrCarriedType(b))>>

\* C14: finish fails whenever the static result types of the entry sequence
\* differ from the declared results, and a failed finish leaves the function
\* arena as it was; when they match, finish inserts exactly one function,
\* the one that was built, and returns its id.
C14_FinishVerifiesResults ==
    Finished =>
        /\ fin.ret.ok <=> fin.entry = fin.declared
        /\ fin.declared = plan.results
        /\ ~fin.ret.ok => funcs = fin.before
        /\ fin.ret.ok =>
              /\ Len(funcs) = Len(fin.before) + 1
              /\ SubSeq(funcs, 1, Len(fin.before)) = fin.before
              /\ fin.ret.val = Len(fin.before)
              /\ funcs[fin.ret.val + 1].seqs = plan.seqs
              /\ ParamsOf(arena, funcs[fin.ret.val + 1]) = plan.params
              /\ ResultsOf(arena, funcs[fin.ret.val + 1]) = plan.results

\* C14's case: a finish failed on a module that already held a function, the
\* entry sequence leaving as many types as declared, but different ones.
C14_Witness ==
    /\ Finished /\ ~fin.ret.ok
    /\ fin.before # <<>>
    /\ Len(fin.entry) = Len(fin.declared)
    /\ funcs = fin.before

\* C14, second case: a finish inserted a second function and returned id 1.
C14_WitnessInserted ==
    /\ Inserted
    /\ fin.before # <<>>
    /\ fin.ret.val = 1
    /\ Len(funcs) = 2

\* does a value type, or an instruction, name a concrete (indexed) heap type
ValNamesConcrete(v) == v.tag = "Ref" /\ v.ref.heap_type.tag = "Concrete"
ListNamesConcrete(tys) == \E k \in DOMAIN tys : ValNamesConcrete(tys[k])
InstrNamesConcrete(i) ==
    \/ i.op \in {"ref.cast", "ref.test"} /\ i.heap_type.tag = "Concrete"
    \/ IsBranchOnCast(i)
          /\ (i.src_heap_type.tag = "Concrete" \/ i.dst_heap_type.tag = "Concrete")

\* does the module name a concrete heap type: in a user-visible signature,
\* a table, a global, or a function body
ModuleNamesConcrete ==
    \/ \E id \in ArenaIter(arena, dead) :
          /\ ~ArenaSlot(arena, id).is_for_function_entry
          /\ \/ ListNamesConcrete(ArenaSlot(arena, id).params)
             \/ ListNamesConcrete(ArenaSlot(arena, id).results)
    \/ \E k \in DOMAIN tables : tables[k].element_ty.heap_type.tag = "Concrete"
    \/ \E k \in DOMAIN globals : ValNamesConcrete(globals[k].ty)
    \/ \E k \in DOMAIN funcs :
          \/ \E j \in DOMAIN funcs[k].seqs : ListNamesConcrete(funcs[k].seqs[j].ty)
          \/ \E i \in InstrsOf(funcs[k].seqs) : InstrNamesConcrete(i)

C15_WitnessAbort ==
    /\ RoundTripped /\ wire.bytes = Panic
    /\ ModuleNamesConcrete

\* is sequence t attached: the body of a Block of some sequence
Attached(seqs, t) == \E s \in DOMAIN seqs : Block(t) \in InstrsOf(<<seqs[s]>>)

\* the sequences whose Block holds sequence t
ParentsOf(seqs, t) == {s \in DOMAIN seqs : Block(t) \in InstrsOf(<<seqs[s]>>)}

\* how many labels lie between sequence s and the enclosing sequence t
RECURSIVE Hops(_, _, _)
Hops(seqs, s, t) ==
    IF s = t THEN 0 ELSE 1 + Hops(seqs, CHOOSE p \in ParentsOf(seqs, s) : TRUE, t)

\* the depths of the branches of a nested body
RECURSIVE DepthsIn(_)
DepthsIn(body) ==
    UNION {IF body[k].op = "block" THEN DepthsIn(body[k].body)
           ELSE IF IsBranchOnCast(body[k]) THEN {body[k].relative_depth}
           ELSE {} : k \in DOMAIN body}

\* the places of the branches: a sequence and a branch-on-cast in it
BranchSites(seqs) ==
    {si \in (DOMAIN seqs) \X InstrsOf(seqs) :
        IsBranchOnCast(si[2]) /\ si[2] \in InstrsOf(<<seqs[si[1]]>>)}

\* C16, first part: whatever the order in which the sequences were populated
\* and attached, the depth a branch is emitted with is the number of labels
\* between the branch and its target in the finished nesting.
C16_DepthsFollowNesting ==
    (Inserted /\ RoundTripped /\ wire.bytes # Panic) =>
        LET seqs == funcs[fin.ret.val + 1].seqs
        IN  DepthsIn(wire.back.val.funcs[fin.ret.val + 1].body) =
                {Hops(seqs, si[1], si[2].block) : si \in BranchSites(seqs)}

\* C16, first part: a branch to a dangling sequence was appended while that
\* sequence was attached to no parent.
C16_BranchBeforeAttach ==
    /\ bld # NoBuilder
    /\ \E b \in Branches : b.block > 1 /\ ~Attached(bld.seqs, b.block)

\* C16, first part: a function whose branch crosses two labels was emitted.
C16_DeepBranch ==
    /\ Inserted /\ RoundTripped /\ wire.bytes # Panic
    /\ 2 \in DepthsIn(wire.back.val.funcs[fin.ret.val + 1].body)

====
